---- MODULE Spec2Model ----
(***************************************************************************)
(* A model of chrismilson/itertools.js: the generators groupBy, islice and  *)
(* accumulate (index.ts), combinations / combinationsWithReplacement       *)
(* (combinations.ts), zip / zipLongest (zip.ts) and range (range.ts).      *)
(* A generator is an object with a position ("start", "yielded", "done");  *)
(* one action is one call of next() on it, run up to its next yield or     *)
(* return.                                                                 *)
(***************************************************************************)
EXTENDS Integers, Sequences, FiniteSets, TLC

\* ---------------------------------------------------------------- bounds
MaxLen == 3      \* longest source handed to groupBy
MaxPairs == 4    \* most pairs the caller requests from one groupBy
MaxN == 4        \* longest arbitrary iterable handed to combinations
MaxR == 5        \* largest r handed to combinations
MaxIslLen == 3   \* longest arbitrary iterable handed to islice
MaxArg == 3      \* largest start, end or step handed to islice
MaxZipLen == 2   \* longest finite source (and longest period) handed to zip
MaxZipN == 2     \* most sources handed to zip
MaxZipOut == 4   \* pulls of a zip output that yield, before the model stops
MaxAccLen == 3   \* longest iterable handed to accumulate
MaxRangeArg == 2 \* largest absolute value of an argument of range
MaxRangeOut == 6 \* pulls of a range that yield, before the model stops
MaxMapLen == 3   \* longest arbitrary iterable handed to map
MaxFilterLen == 3 \* longest arbitrary iterable handed to filter
MaxCompressLen == 3 \* longest arbitrary data or selectors of compress

\* ------------------------------------------------------------ JS values
\* JavaScript values are modelled as strings, so that every two of them can
\* be compared.
NaN == "NaN"
Undefined == "undefined"
\* The dummy object `{}` of groupBy: strictly equal to itself, and to nothing
\* an iterable or a key function can produce.
Dummy == "{}"
Values == {"0", "1", NaN}
\* The key functions tried: the default one (identity) and every function
\* into a key that equals itself or one that does not.
Identity == [v \in Values |-> v]
KeyFuncs == {Identity} \cup [Values -> {"0", NaN}]

\* a === b for the values above: NaN is not strictly equal to itself.
StrictEq(a, b) == a = b /\ a # NaN

BoundedSeq(S, n) == UNION {[1..k -> S] : k \in 0..n}

\* The characters of the documented inputs, in character-code order.
Alphabet == <<"1", "2", "3", "4", "5", "A", "B", "C", "D">>
CharCode(c) == CHOOSE k \in 1..Len(Alphabet) : Alphabet[k] = c
\* The iterables of the tests and the documentation.
DocIterables == {<<"1", "2", "3", "4", "5">>, <<"A", "B", "C", "D">>,
                 <<"A", "B", "C">>}

VARIABLES
  source,     \* groupBy: the iterable
  keyFunc,    \* groupBy: the key function (identity when omitted)
  it,         \* groupBy: number of elements `it` has handed out
  currKey,    \* groupBy: let currKey
  targetKey,  \* groupBy: let targetKey
  currValue,  \* groupBy: let currValue
  id,         \* groupBy: let id, the n-th object minted
  outer,      \* groupBy: the outer generator [pc, keys]
  groups,     \* groupBy: the grouper generators yielded, [targetId, pc, out]
  last,       \* what the caller saw of the last next() call
  hist,       \* how the caller has used the generators so far
  fn,         \* combinations.ts: which of the two generators was called
  iterable,   \* combinations.ts: the iterable argument
  r,          \* combinations.ts: the r argument
  saved,      \* combinations.ts: const saved
  indicies,   \* combinations.ts: const indicies (zero-based positions)
  pc,         \* combinations.ts: where the generator is suspended
  picked,     \* the index tuples at each yield so far
  emitted,    \* the tuples yielded so far
  drawn,      \* combinations.ts: elements taken from the iterable so far
  isl,        \* islice: the call and the generator it returned
  zp,         \* zip / zipLongest: the call and the generator it returned
  acc,        \* accumulate: the call and the generator it returned
  rng,        \* range: the call and the generator it returned
  mp,         \* map: the call and the generator it returned
  flt,        \* filter / filterFalse: the call and the generator it returned
  cmp         \* compress: the call and the generator it returned

gbVars == <<source, keyFunc, it, currKey, targetKey, currValue, id, outer,
            groups, last, hist>>

combVars == <<fn, iterable, r, saved, indicies, pc, picked, emitted, drawn>>

moreVars == <<isl, zp, acc, rng>>

restVars == <<mp, flt, cmp>>

vars == <<gbVars, combVars, moreVars, restVars>>

\* An optional argument: absent (undefined), or present with a value.
None == <<>>
Some(v) == <<v>>

\* No such generator has been asked for.
IslIdle == isl = [pc |-> "idle"]
ZipIdle == zp = [pc |-> "idle"]
AccIdle == acc = [pc |-> "idle"]
RngIdle == rng = [pc |-> "idle"]
MapIdle == mp = [pc |-> "idle"]
FilterIdle == flt = [pc |-> "idle"]
CompressIdle == cmp = [pc |-> "idle"]
RestIdle == MapIdle /\ FilterIdle /\ CompressIdle

\* ------------------------------------------------------------- groupBy
\* it.next() of the array iterator: [done, value, it].
ItNext(i) ==
  IF i < Len(source)
    THEN [done |-> FALSE, value |-> source[i + 1], it |-> i + 1]
    ELSE [done |-> TRUE, value |-> Undefined, it |-> i]

\* One round of `if (!({ value: currValue } = it.next()).done) currKey =
\* keyFunc(currValue) else return`, on the shared state s = [it, currKey,
\* currValue, done].
Advance(s) ==
  LET n == ItNext(s.it) IN
    [it |-> n.it,
     currKey |-> IF n.done THEN s.currKey ELSE keyFunc[n.value],
     currValue |-> n.value,
     done |-> n.done]

\* grouper's loop without the generation test (a mutant of GrouperLive).
GrouperLive_NoId(targetId, ident, ck, tk) == StrictEq(ck, tk)

\* The condition of grouper's while loop.
GrouperLive(targetId, ident, ck, tk) == ident = targetId /\ StrictEq(ck, tk)

\* The outer `while (currKey === targetKey)` loop, which skips the values of
\* the same key: the shared state when it is left.
RECURSIVE Skip(_)
Skip(s) ==
  IF s.done \/ ~StrictEq(s.currKey, targetKey)
    THEN s
    ELSE Skip(Advance(s))

Shared == [it |-> it, currKey |-> currKey, currValue |-> currValue,
           done |-> FALSE]

\* An outer loop that keeps the same `id` for every round (a mutant of
\* FreshId).
FreshId_Same(ident) == ident

\* The identity the outer loop gives `id` at the top of each round.
FreshId(ident) == ident + 1

\* next() on the generator groupBy returned.
OuterNext ==
  /\ outer.pc # "done"
  /\ Len(groups) < MaxPairs
  /\ LET s == Skip(Shared) IN
       /\ id' = FreshId(id)
       /\ it' = s.it
       /\ currKey' = s.currKey
       /\ currValue' = s.currValue
       /\ IF s.done
            THEN /\ outer' = [outer EXCEPT !.pc = "done"]
                 /\ UNCHANGED <<targetKey, groups>>
                 /\ last' = [op |-> "outer", g |-> 0, stale |-> FALSE,
                             from |-> outer.pc, res |-> "end",
                             val |-> Undefined, took |-> s.it - it]
            ELSE /\ targetKey' = s.currKey
                 /\ outer' = [pc |-> "yielded",
                              keys |-> Append(outer.keys, s.currKey)]
                 /\ groups' = Append(groups, [targetId |-> id', pc |-> "start",
                                              out |-> <<>>])
                 /\ last' = [op |-> "outer", g |-> Len(groups) + 1,
                             stale |-> FALSE, from |-> outer.pc,
                             res |-> "value", val |-> s.currKey,
                             took |-> s.it - it]
  /\ hist' = [hist EXCEPT
       !.eager = @ /\ (groups = <<>> \/ groups[Len(groups)].pc = "done")]
  /\ UNCHANGED <<source, keyFunc, combVars, moreVars, restVars>>

\* next() on the g-th grouper.
InnerNext(g) ==
  LET gr == groups[g]
      \* resumed after `yield currValue`: the shared iterator is advanced
      s == IF gr.pc = "yielded" THEN Advance(Shared) ELSE Shared
      yields == gr.pc # "done" /\ ~s.done
                  /\ GrouperLive(gr.targetId, id, s.currKey, targetKey)
  IN
  /\ it' = s.it
  /\ currKey' = s.currKey
  /\ currValue' = s.currValue
  /\ groups' = [groups EXCEPT ![g] =
       IF yields
         THEN [gr EXCEPT !.pc = "yielded", !.out = Append(@, s.currValue)]
         ELSE [gr EXCEPT !.pc = "done"]]
  /\ last' = [op |-> "inner", g |-> g, stale |-> gr.targetId # id,
              from |-> gr.pc, res |-> IF yields THEN "value" ELSE "end",
              val |-> IF yields THEN s.currValue ELSE Undefined,
              took |-> s.it - it]
  /\ hist' = [hist EXCEPT
       !.latestOnly = @ /\ g = Len(groups),
       !.innerBeforeEnd = @ \/ outer.pc # "done"]
  /\ UNCHANGED <<source, keyFunc, targetKey, id, outer, combVars, moreVars, restVars>>

\* No combinations generator exists.
CombIdle ==
  /\ fn = "none" /\ iterable = <<>> /\ r = 0 /\ saved = <<>>
  /\ indicies = <<>> /\ pc = "done" /\ picked = <<>> /\ emitted = <<>>
  /\ drawn = 0

GroupByInit ==
  /\ CombIdle /\ IslIdle /\ ZipIdle /\ AccIdle /\ RngIdle /\ RestIdle
  /\ source \in BoundedSeq(Values, MaxLen)
  /\ keyFunc \in KeyFuncs
  /\ it = 0
  /\ currKey = Dummy
  /\ targetKey = Dummy
  /\ currValue = Dummy
  /\ id = 0
  /\ outer = [pc |-> "start", keys |-> <<>>]
  /\ groups = <<>>
  /\ last = [op |-> "none", g |-> 0, stale |-> FALSE, from |-> "start",
             res |-> "end", val |-> Undefined, took |-> 0]
  /\ hist = [eager |-> TRUE, latestOnly |-> TRUE, innerBeforeEnd |-> FALSE]

GroupByNext ==
  \/ OuterNext
  \/ \E g \in 1..Len(groups) : InnerNext(g)

SpecGroupBy == GroupByInit /\ [][GroupByNext]_vars

\* ------------------------------------------------------ combinations.ts
\* [...range(r)], for r >= 0.
Range(end) == [k \in 1..end |-> k - 1]

\* Array(r).fill(0)
Zeros(len) == [k \in 1..len |-> 0]

\* saved[i]; an index outside the array reads undefined.
At(arr, i) == IF i >= 0 /\ i < Len(arr) THEN arr[i + 1] ELSE Undefined

\* indicies.map((i) => saved[i])
Pick(arr, ind) == [k \in 1..Len(ind) |-> At(arr, ind[k])]

\* The largest value position i of the index tuple may take in combinations.
MaxIndex(i, n, rr) == i + n - rr

\* The largest value a position may take in combinationsWithReplacement.
MaxIndexRepl(i, n, rr) == n - 1

\* `for (; i >= 0; i--) if (indicies[i] !== i + n - r) break`, from i down.
RECURSIVE RightmostScan(_, _, _, _)
RightmostScan(ind, i, n, rr) ==
  IF i >= 0 /\ ind[i + 1] = MaxIndex(i, n, rr)
    THEN RightmostScan(ind, i - 1, n, rr)
    ELSE i

\* The scan run from the left end instead (a mutant of Rightmost): the
\* leftmost position that is not at its maximum, -1 if there is none.
Rightmost_FromLeft(ind, n, rr) ==
  LET free == {i \in 0..(rr - 1) : ind[i + 1] # MaxIndex(i, n, rr)} IN
    IF free = {} THEN -1 ELSE CHOOSE i \in free : \A j \in free : i <= j

\* `let i = r - 1` and the scan: the rightmost position of the index tuple
\* that is not at its maximum, -1 if there is none.
Rightmost(ind, n, rr) == RightmostScan(ind, rr - 1, n, rr)

\* `for (; i >= 0; i--) if (indicies[i] !== n - 1) break`, from i down.
RECURSIVE RightmostReplScan(_, _, _, _)
RightmostReplScan(ind, i, n, rr) ==
  IF i >= 0 /\ ind[i + 1] = MaxIndexRepl(i, n, rr)
    THEN RightmostReplScan(ind, i - 1, n, rr)
    ELSE i

\* The scan run from the left end instead (a mutant of RightmostRepl).
RightmostRepl_FromLeft(ind, n, rr) ==
  LET free == {i \in 0..(rr - 1) : ind[i + 1] # MaxIndexRepl(i, n, rr)} IN
    IF free = {} THEN -1 ELSE CHOOSE i \in free : \A j \in free : i <= j

\* `let i = r - 1` and the scan of combinationsWithReplacement.
RightmostRepl(ind, n, rr) == RightmostReplScan(ind, rr - 1, n, rr)

Reset_Same(ind, j) ==
  [k \in 1..Len(ind) |-> IF k <= j THEN ind[k] ELSE ind[j]]

\* `for (let j = i + 1; j < r; j++) indicies[j] = indicies[j - 1] + 1`,
\* from j on.
RECURSIVE Reset(_, _)
Reset(ind, j) ==
  IF j < Len(ind)
    THEN Reset([ind EXCEPT ![j + 1] = ind[j] + 1], j + 1)
    ELSE ind

\* The advance of combinations without the `+ 1` of its reset loop (a
\* mutant of Step).
Step_CopyLeft(ind, i) ==
  [k \in 1..Len(ind) |-> IF k < i + 1 THEN ind[k] ELSE ind[i + 1] + 1]

\* `indicies[i] += 1` and the reset loop of combinations.
Step(ind, i) == Reset([ind EXCEPT ![i + 1] = @ + 1], i + 1)

\* A reset loop that restarts the positions to the right at 0 (a mutant of
\* ResetRepl).
ResetRepl_Zero(ind, j) == [k \in 1..Len(ind) |-> IF k > j THEN 0 ELSE ind[k]]

\* `for (let j = i + 1; j < r; j++) indicies[j] = indicies[j - 1]`, from j
\* on.
RECURSIVE ResetRepl(_, _)
ResetRepl(ind, j) ==
  IF j < Len(ind)
    THEN ResetRepl([ind EXCEPT ![j + 1] = ind[j]], j + 1)
    ELSE ind

\* The advance of combinationsWithReplacement without its reset loop (a
\* mutant of StepRepl).
StepRepl_NoReset(ind, i) == [ind EXCEPT ![i + 1] = @ + 1]

\* `indicies[i] += 1` and the reset loop of combinationsWithReplacement.
StepRepl(ind, i) == ResetRepl([ind EXCEPT ![i + 1] = @ + 1], i + 1)

Yield(ind, arr) ==
  /\ indicies' = ind
  /\ picked' = Append(picked, ind)
  /\ emitted' = Append(emitted, Pick(arr, ind))
  /\ pc' = "yielded"

Return ==
  /\ pc' = "done"
  /\ UNCHANGED <<indicies, picked, emitted>>

\* `[...iterable]`: the number of elements the spread takes from the
\* iterable, which is all of them.
Snapshot(xs) == Len(xs)

\* next() on the generator combinations(iterable, r) returned.
CombinationsNext ==
  /\ fn = "combinations"
  /\ \/ /\ pc = "start"
        /\ saved' = iterable
        /\ drawn' = Snapshot(iterable)
        /\ IF r > Len(iterable)
             THEN Return
             ELSE Yield(Range(r), iterable)
     \/ /\ pc = "yielded"
        /\ UNCHANGED <<saved, drawn>>
        /\ LET i == Rightmost(indicies, Len(saved), r) IN
             IF i = -1
               THEN Return
               ELSE Yield(Step(indicies, i), saved)
  /\ UNCHANGED <<fn, iterable, r, gbVars, moreVars, restVars>>

\* next() on the generator combinationsWithReplacement(iterable, r) returned.
CombinationsWithReplacementNext ==
  /\ fn = "combinationsWithReplacement"
  /\ \/ /\ pc = "start"
        /\ saved' = iterable
        /\ drawn' = Snapshot(iterable)
        /\ IF Len(iterable) = 0 /\ r # 0
             THEN Return
             ELSE Yield(Zeros(r), iterable)
     \/ /\ pc = "yielded"
        /\ UNCHANGED <<saved, drawn>>
        /\ LET i == RightmostRepl(indicies, Len(saved), r) IN
             IF i = -1
               THEN Return
               ELSE Yield(StepRepl(indicies, i), saved)
  /\ UNCHANGED <<fn, iterable, r, gbVars, moreVars, restVars>>

\* No groupBy generator exists.
GroupByIdle ==
  /\ source = <<>> /\ keyFunc = Identity /\ it = 0
  /\ currKey = Dummy /\ targetKey = Dummy /\ currValue = Dummy /\ id = 0
  /\ outer = [pc |-> "done", keys |-> <<>>]
  /\ groups = <<>>
  /\ last = [op |-> "none", g |-> 0, stale |-> FALSE, from |-> "start",
             res |-> "end", val |-> Undefined, took |-> 0]
  /\ hist = [eager |-> TRUE, latestOnly |-> TRUE, innerBeforeEnd |-> FALSE]

CombInit ==
  /\ GroupByIdle /\ IslIdle /\ ZipIdle /\ AccIdle /\ RngIdle /\ RestIdle
  /\ drawn = 0
  /\ fn \in {"combinations", "combinationsWithReplacement"}
  /\ iterable \in BoundedSeq({"A", "B"}, MaxN) \cup DocIterables
  /\ r \in 0..MaxR
  /\ saved = <<>>
  /\ indicies = <<>>
  /\ pc = "start"
  /\ picked = <<>>
  /\ emitted = <<>>

CombNext ==
  \/ CombinationsNext
  \/ CombinationsWithReplacementNext

SpecComb == CombInit /\ [][CombNext]_vars

\* ------------------------------------------------------------------ islice
\* A generator made by `function*` is "uncalled" before the call, at "start"
\* once the call has returned it (no statement of the body has run), at
\* "yielded" while suspended at a yield, "done" after its return and
\* "thrown" after an exception left its body.
Live(p) == p \in {"start", "yielded"}

Closed_OnlyDone(p) == p = "done"

\* The generator has completed: next() returns { done: true } from now on.
Closed(p) == p \in {"done", "thrown"}

\* range(0, 100), the iterable of the documented examples.
Range100 == [k \in 1..100 |-> k - 1]

\* The overloads of islice: (k), (start, undefined, step), (start, end, step?).
\* end = None stands for Infinity.
IsliceArgs(startOrEnd, endValue, stepValue) ==
  IF endValue = None
    THEN IF stepValue = None
           THEN [start |-> 0, end |-> Some(startOrEnd), step |-> 1]
           ELSE [start |-> startOrEnd, end |-> None, step |-> stepValue[1]]
    ELSE [start |-> startOrEnd, end |-> endValue,
          step |-> IF stepValue = None THEN 1 ELSE stepValue[1]]

IsliceInvalid_NoStep(startOrEnd, endValue, stepValue) ==
  LET a == IsliceArgs(startOrEnd, endValue, stepValue) IN
    \/ endValue = None /\ stepValue = None /\ startOrEnd < 0
    \/ a.start < 0
    \/ a.end # None /\ a.end[1] < 0

\* The argument checks of islice: some `throw new TypeError` is reached.
IsliceInvalid(startOrEnd, endValue, stepValue) ==
  LET a == IsliceArgs(startOrEnd, endValue, stepValue) IN
    \/ endValue = None /\ stepValue = None /\ startOrEnd < 0
    \/ a.start < 0
    \/ a.end # None /\ a.end[1] < 0
    \/ a.step <= 0

Count_Unit(start, step, n) == start + n

\* The n-th value (from 0) of count(start, step).
Count(start, step, n) == start + n * step

BelowEnd_Late(v, end) == end = None \/ v <= end[1]

\* The predicate islice hands to takeWhile: v < end.
BelowEnd(v, end) == end = None \/ v < end[1]

RECURSIVE IsliceScan(_, _, _)
\* The inner loop of islice: enumerated.next() until the index is `select`
\* or the source is done.  taken = elements drawn from the source so far,
\* which is also the index enumerate gives the next one.
IsliceScan(src, taken, select) ==
  IF taken >= Len(src)
    THEN [found |-> FALSE, taken |-> taken, val |-> 0]
    ELSE IF taken = select
           THEN [found |-> TRUE, taken |-> taken + 1, val |-> src[taken + 1]]
           ELSE IsliceScan(src, taken + 1, select)

\* islice(src, startOrEnd, endValue, stepValue) is called.
IsliceCall ==
  /\ isl.pc = "uncalled"
  /\ isl' = [isl EXCEPT !.pc = "start"]
  /\ UNCHANGED <<gbVars, combVars, zp, acc, rng, restVars>>

\* next() on the generator islice returned.
IsliceNext ==
  /\ isl.pc \notin {"idle", "uncalled"}
  /\ LET a == IsliceArgs(isl.startOrEnd, isl.endValue, isl.stepValue)
         select == Count(a.start, a.step, isl.k)
         s == IsliceScan(isl.src, isl.taken, select)
     IN
       IF Closed(isl.pc)
         THEN isl' = [isl EXCEPT !.res = "end"]
       ELSE IF isl.pc = "start"
                 /\ IsliceInvalid(isl.startOrEnd, isl.endValue, isl.stepValue)
         THEN isl' = [isl EXCEPT !.pc = "thrown", !.res = "error"]
       ELSE IF ~BelowEnd(select, a.end)
         THEN isl' = [isl EXCEPT !.pc = "done", !.res = "end",
                                 !.k = isl.k + 1]
       ELSE IF s.found
         THEN isl' = [isl EXCEPT !.pc = "yielded", !.res = "value",
                                 !.k = isl.k + 1, !.taken = s.taken,
                                 !.out = Append(isl.out, s.val),
                                 !.outPos = Append(isl.outPos, s.taken - 1)]
         ELSE isl' = [isl EXCEPT !.pc = "done", !.res = "end",
                                 !.k = isl.k + 1, !.taken = s.taken]
  /\ UNCHANGED <<gbVars, combVars, zp, acc, rng, restVars>>

IsliceCalls ==
  [src : BoundedSeq({7, 8}, MaxIslLen),
   startOrEnd : -1..MaxArg,
   endValue : {None} \cup {Some(v) : v \in -1..MaxArg},
   stepValue : {None} \cup {Some(v) : v \in -1..MaxArg}]
  \cup {[src |-> Range100, startOrEnd |-> 2, endValue |-> Some(10),
         stepValue |-> Some(3)]}

IsliceInit ==
  /\ GroupByIdle /\ CombIdle /\ ZipIdle /\ AccIdle /\ RngIdle /\ RestIdle
  /\ \E c \in IsliceCalls :
       isl = [pc |-> "uncalled", src |-> c.src, startOrEnd |-> c.startOrEnd,
              endValue |-> c.endValue, stepValue |-> c.stepValue,
              k |-> 0, taken |-> 0, out |-> <<>>, outPos |-> <<>>,
              res |-> "none"]

IsliceStep ==
  \/ IsliceCall
  \/ IsliceNext

SpecIslice == IsliceInit /\ [][IsliceStep]_vars

\* --------------------------------------------------------- zip, zipLongest
\* A source is finite (its elements) or infinite (its elements, repeated
\* for ever).
ZipSources ==
  [inf : {FALSE}, elems : BoundedSeq({"a", "b"}, MaxZipLen)]
  \cup [inf : {TRUE}, elems : BoundedSeq({"a", "b"}, MaxZipLen) \ {<<>>}]

\* i.next() on the iterator of source s that has given c elements so far.
SourceNext(s, c) ==
  IF s.inf
    THEN [done |-> FALSE, value |-> s.elems[(c % Len(s.elems)) + 1],
          cur |-> c + 1]
    ELSE IF c < Len(s.elems)
           THEN [done |-> FALSE, value |-> s.elems[c + 1], cur |-> c + 1]
           ELSE [done |-> TRUE, value |-> Undefined, cur |-> c]

Round_UntilDone(srcs, cur) ==
  [i \in 1..Len(srcs) |->
     IF \E j \in 1..(i - 1) : SourceNext(srcs[j], cur[j]).done
       THEN [done |-> FALSE, value |-> Undefined, cur |-> cur[i]]
       ELSE SourceNext(srcs[i], cur[i])]

\* iterators.map((i) => i.next()): every iterator is asked, in order.
Round(srcs, cur) ==
  [i \in 1..Len(srcs) |-> SourceNext(srcs[i], cur[i])]

\* The order in which iterators.map asks the iterators: by rising index.
AskOrder(result) == [i \in 1..Len(result) |-> i]

SomeDone_Every(result) ==
  \A i \in 1..Len(result) : result[i].done

SomeDone_OrNone(result) ==
  Len(result) = 0 \/ \E i \in 1..Len(result) : result[i].done

\* result.some(({ done }) => done)
SomeDone(result) ==
  \E i \in 1..Len(result) : result[i].done

AllDone_Some(result) ==
  \E i \in 1..Len(result) : result[i].done

\* !result.some(({ done }) => !done)
AllDone(result) ==
  ~ \E i \in 1..Len(result) : ~result[i].done

\* result.map(({ value }) => value)
ZipTuple(result) ==
  [i \in 1..Len(result) |-> result[i].value]

\* result.map(({ done, value }) => done ? undefined : value)
ZipLongestTuple(result) ==
  [i \in 1..Len(result) |->
     IF result[i].done THEN Undefined ELSE result[i].value]

ZipCall_Eager ==
  /\ zp.pc = "uncalled"
  /\ zp' = [zp EXCEPT !.pc = "start",
                      !.cur = [i \in 1..Len(zp.srcs) |->
                                 Round(zp.srcs, zp.cur)[i].cur]]
  /\ UNCHANGED <<gbVars, combVars, isl, acc, rng, restVars>>

\* zip(...srcs) or zipLongest(...srcs) is called.
ZipCall ==
  /\ zp.pc = "uncalled"
  /\ zp' = [zp EXCEPT !.pc = "start"]
  /\ UNCHANGED <<gbVars, combVars, isl, acc, rng, restVars>>

\* One next() of a zip or zipLongest generator whose break condition is
\* stop and whose yielded value is tuple.
ZipRound(stop, tuple) ==
  LET result == Round(zp.srcs, zp.cur) IN
    IF Closed(zp.pc)
      THEN zp' = [zp EXCEPT !.res = "end", !.asked = <<>>]
    ELSE IF stop
      THEN zp' = [zp EXCEPT !.pc = "done", !.res = "end",
                            !.asked = AskOrder(result),
                            !.cur = [i \in 1..Len(result) |-> result[i].cur]]
      ELSE zp' = [zp EXCEPT !.pc = "yielded", !.res = "value",
                            !.asked = AskOrder(result),
                            !.cur = [i \in 1..Len(result) |-> result[i].cur],
                            !.out = Append(zp.out, tuple)]

\* next() on the generator zip returned.
ZipNext ==
  /\ zp.pc \notin {"idle", "uncalled"} /\ zp.fn = "zip"
  /\ Len(zp.out) < MaxZipOut
  /\ LET result == Round(zp.srcs, zp.cur) IN
       ZipRound(SomeDone(result), ZipTuple(result))
  /\ UNCHANGED <<gbVars, combVars, isl, acc, rng, restVars>>

\* next() on the generator zipLongest returned.
ZipLongestNext ==
  /\ zp.pc \notin {"idle", "uncalled"} /\ zp.fn = "zipLongest"
  /\ Len(zp.out) < MaxZipOut
  /\ LET result == Round(zp.srcs, zp.cur) IN
       ZipRound(AllDone(result), ZipLongestTuple(result))
  /\ UNCHANGED <<gbVars, combVars, isl, acc, rng, restVars>>

ZipInit ==
  /\ GroupByIdle /\ CombIdle /\ IslIdle /\ AccIdle /\ RngIdle /\ RestIdle
  /\ \E f \in {"zip", "zipLongest"}, ss \in BoundedSeq(ZipSources, MaxZipN) :
       zp = [pc |-> "uncalled", fn |-> f, srcs |-> ss,
             cur |-> [i \in 1..Len(ss) |-> 0], asked |-> <<>>,
             out |-> <<>>, res |-> "none"]

ZipStep ==
  \/ ZipCall
  \/ ZipNext
  \/ ZipLongestNext

SpecZip == ZipInit /\ [][ZipStep]_vars

\* --------------------------------------------------------------- accumulate
\* A JavaScript value of the accumulate model: a number, a string or
\* undefined.
Num(n) == [k |-> "number", n |-> n, s |-> ""]
Str(s) == [k |-> "string", n |-> 0, s |-> s]
Undef == [k |-> "undefined", n |-> 0, s |-> ""]

\* typeof v
TypeOf(v) == v.k

Digits == <<"0", "1", "2", "3", "4", "5", "6", "7", "8", "9">>

RECURSIVE NumberToString(_)
\* String(n) for an integer n >= 0.
NumberToString(n) ==
  IF n < 10 THEN Digits[n + 1]
            ELSE NumberToString(n \div 10) \o Digits[(n % 10) + 1]

\* a ?? 0
OrZero(a) == IF TypeOf(a) = "undefined" THEN Num(0) ELSE a

\* a + b for b a number: the sum of two numbers, the concatenation when a
\* is a string.
Plus(a, b) ==
  IF TypeOf(a) = "number" THEN Num(a.n + b.n)
                          ELSE Str(a.s \o NumberToString(b.n))

DefaultReducer_Unchecked(a, b) ==
  IF TypeOf(b) = "number"
    THEN [throws |-> FALSE, value |-> Plus(OrZero(a), b)]
    ELSE [throws |-> FALSE, value |-> a]

\* defaultReducer of accumulate.
DefaultReducer(a, b) ==
  IF TypeOf(b) # "number"
    THEN [throws |-> TRUE, value |-> Undef]
    ELSE [throws |-> FALSE, value |-> Plus(OrZero(a), b)]

\* The reducer of the documented example: (n, s) => (n ?? 0) + s.length,
\* for strings s.
LengthReducer(a, b) ==
  [throws |-> FALSE, value |-> Plus(OrZero(a), Num(Len(b.s)))]

\* reducer(a, b) for the reducer in use.
Reduce(reducer, a, b) ==
  IF reducer = None THEN DefaultReducer(a, b) ELSE LengthReducer(a, b)

\* accumulate(src, reducer, initial) is called.
AccumulateCall ==
  /\ acc.pc = "uncalled"
  /\ acc' = [acc EXCEPT !.pc = "start"]
  /\ UNCHANGED <<gbVars, combVars, isl, zp, rng, restVars>>

AccYield(taken, value) ==
  acc' = [acc EXCEPT !.pc = "yielded", !.res = "value", !.taken = taken,
                     !.accumulated = value, !.out = Append(acc.out, value)]

\* next() on the generator accumulate returned.
AccumulateNext ==
  /\ acc.pc \notin {"idle", "uncalled"}
  /\ IF Closed(acc.pc)
       THEN acc' = [acc EXCEPT !.res = "end"]
     ELSE IF acc.pc = "start" /\ acc.initial # None
       THEN AccYield(acc.taken, acc.initial[1])
     ELSE IF acc.taken >= Len(acc.src)
       THEN acc' = [acc EXCEPT !.pc = "done", !.res = "end"]
     ELSE
       LET item == acc.src[acc.taken + 1]
           red == Reduce(acc.reducer,
                         IF acc.pc = "start" THEN Undef ELSE acc.accumulated,
                         item)
       IN IF acc.pc = "start" /\ acc.reducer = None
            THEN AccYield(acc.taken + 1, item)
          ELSE IF red.throws
            THEN acc' = [acc EXCEPT !.pc = "thrown", !.res = "error",
                                    !.taken = acc.taken + 1]
            ELSE AccYield(acc.taken + 1, red.value)
  /\ UNCHANGED <<gbVars, combVars, isl, zp, rng, restVars>>

\* The calls the overloads of accumulate allow: (iterable),
\* (iterable, reducer) and (iterable, reducer, initial).
AccumulateCalls ==
  [src : BoundedSeq({Num(1), Num(2), Str("a"), Undef}, MaxAccLen),
   reducer : {None}, initial : {None}]
  \cup [src : BoundedSeq({Str("bing"), Str("a")}, MaxAccLen),
        reducer : {Some("length")}, initial : {None, Some(Num(0))}]

AccumulateInit ==
  /\ GroupByIdle /\ CombIdle /\ IslIdle /\ ZipIdle /\ RngIdle /\ RestIdle
  /\ \E c \in AccumulateCalls :
       acc = [pc |-> "uncalled", src |-> c.src, reducer |-> c.reducer,
              initial |-> c.initial, taken |-> 0, accumulated |-> Undef,
              out |-> <<>>, res |-> "none"]

AccumulateStep ==
  \/ AccumulateCall
  \/ AccumulateNext

SpecAccumulate == AccumulateInit /\ [][AccumulateStep]_vars

\* -------------------------------------------------------------------- range
\* A number handed to range or counted by it, an IEEE double: the integer
\* int, int + 1/2 when frac, or 2^53 + int when big.  From 2^53 upwards the
\* doubles are the even integers only.
Whole(n) == [big |-> FALSE, int |-> n, frac |-> FALSE]
Half == [big |-> FALSE, int |-> 0, frac |-> TRUE]
Huge(n) == [big |-> TRUE, int |-> n, frac |-> FALSE]

\* x % 1 === 0
IsInteger(x) == ~x.frac

\* The double nearest to 2^53 + d, ties to the even mantissa.
RoundDouble(d) ==
  IF d < 0 \/ d % 2 = 0 THEN d
  ELSE IF (d - 1) % 4 = 0 THEN d - 1 ELSE d + 1

\* i += step of count, for integers i and step, step below 2^53.
Increment(i, step) ==
  IF i.big THEN Huge(RoundDouble(i.int + step.int))
           ELSE Whole(i.int + step.int)

\* a < b for integers.
Less(a, b) ==
  IF a.big = b.big THEN a.int < b.int ELSE b.big

\* The parameters of range after `step = 1` and the overloads.
RangeArgs(startOrEnd, maybeEnd, stepArg) ==
  [start |-> IF maybeEnd = None THEN Whole(0) ELSE startOrEnd,
   end |-> IF maybeEnd = None THEN startOrEnd ELSE maybeEnd[1],
   step |-> IF stepArg = None THEN Whole(1) ELSE stepArg[1]]

\* The argument checks of range: some `throw new TypeError` is reached.
RangeInvalid(a) ==
  \/ a.step = Whole(0)
  \/ ~IsInteger(a.start) \/ ~IsInteger(a.end) \/ ~IsInteger(a.step)

\* The predicate range hands to takeWhile.
RangePredicate(v, end, step) ==
  IF Less(Whole(0), step) THEN Less(v, end) ELSE Less(end, v)

\* range(startOrEnd, maybeEnd, step) is called.
RangeCall ==
  /\ rng.pc = "uncalled"
  /\ rng' = [rng EXCEPT !.pc = "start"]
  /\ UNCHANGED <<gbVars, combVars, isl, zp, acc, restVars>>

\* next() on the generator range returned.  i is the loop variable of
\* count(start, step), k the number of values count has yielded.
RangeNext ==
  /\ rng.pc \notin {"idle", "uncalled"}
  /\ Len(rng.out) < MaxRangeOut
  /\ LET a == RangeArgs(rng.startOrEnd, rng.maybeEnd, rng.step)
         v == IF rng.pc = "start" THEN a.start ELSE Increment(rng.i, a.step)
     IN
       IF Closed(rng.pc)
         THEN rng' = [rng EXCEPT !.res = "end"]
       ELSE IF rng.pc = "start" /\ RangeInvalid(a)
         THEN rng' = [rng EXCEPT !.pc = "thrown", !.res = "error"]
       ELSE IF RangePredicate(v, a.end, a.step)
         THEN rng' = [rng EXCEPT !.pc = "yielded", !.res = "value",
                                 !.i = v, !.k = rng.k + 1,
                                 !.out = Append(rng.out, v)]
         ELSE rng' = [rng EXCEPT !.pc = "done", !.res = "end",
                                 !.i = v, !.k = rng.k + 1]
  /\ UNCHANGED <<gbVars, combVars, isl, zp, acc, restVars>>

RangeNumbers == {Whole(n) : n \in -MaxRangeArg..MaxRangeArg} \cup {Half}

\* 2^53 - 1, 2^53 and 2^53 + 2.
RangeHuge == {Huge(-1), Huge(0), Huge(2)}

RangeInit ==
  /\ GroupByIdle /\ CombIdle /\ IslIdle /\ ZipIdle /\ AccIdle /\ RestIdle
  /\ \E s \in RangeNumbers \cup RangeHuge,
        e \in {None} \cup {Some(x) : x \in RangeNumbers \cup RangeHuge},
        st \in {None} \cup {Some(x) : x \in RangeNumbers} :
       rng = [pc |-> "uncalled", startOrEnd |-> s, maybeEnd |-> e,
              step |-> st, i |-> Whole(0), k |-> 0, out |-> <<>>,
              res |-> "none"]

RangeStep ==
  \/ RangeCall
  \/ RangeNext

SpecRange == RangeInit /\ [][RangeStep]_vars

\* ------------------------------------------- the generators that can throw
ErrorsInit ==
  \/ IsliceInit
  \/ RangeInit
  \/ AccumulateInit

ErrorsNext ==
  \/ IsliceStep
  \/ RangeStep
  \/ AccumulateStep

SpecErrors == ErrorsInit /\ [][ErrorsNext]_vars

\* --------------------------------------------------------------------- map
\* The mapper of the test: (v) => v * 2, on the values of the test.
TestValues == <<1, 2, 3, 4, 5>>
Mapper == [v \in 1..5 |-> v * 2]

Apply_Nothing(f, item) == item

\* mapFunction(item)
Apply(f, item) == f[item]

\* map(src, f) is called.
MapCall ==
  /\ mp.pc = "uncalled"
  /\ mp' = [mp EXCEPT !.pc = "start"]
  /\ UNCHANGED <<gbVars, combVars, moreVars, flt, cmp>>

\* next() on the generator map returned.  calls is the log of the arguments
\* mapFunction has been called with.
MapNext ==
  /\ mp.pc \notin {"idle", "uncalled"}
  /\ IF Closed(mp.pc)
       THEN mp' = [mp EXCEPT !.res = "end"]
     ELSE IF mp.taken >= Len(mp.src)
       THEN mp' = [mp EXCEPT !.pc = "done", !.res = "end"]
     ELSE
       LET item == mp.src[mp.taken + 1] IN
         mp' = [mp EXCEPT !.pc = "yielded", !.res = "value",
                          !.taken = mp.taken + 1,
                          !.calls = Append(mp.calls, item),
                          !.out = Append(mp.out, Apply(mp.f, item))]
  /\ UNCHANGED <<gbVars, combVars, moreVars, flt, cmp>>

MapCalls ==
  [src : BoundedSeq({1, 2}, MaxMapLen), f : [{1, 2} -> {0, 1}]]
  \cup {[src |-> TestValues, f |-> Mapper]}

MapInit ==
  /\ GroupByIdle /\ CombIdle /\ IslIdle /\ ZipIdle /\ AccIdle /\ RngIdle
  /\ FilterIdle /\ CompressIdle
  /\ \E c \in MapCalls :
       mp = [pc |-> "uncalled", src |-> c.src, f |-> c.f, taken |-> 0,
             calls |-> <<>>, out |-> <<>>, res |-> "none"]

MapStep ==
  \/ MapCall
  \/ MapNext

SpecMap == MapInit /\ [][MapStep]_vars

\* ------------------------------------------------------ filter, filterFalse
\* The values Boolean() turns into false.
Falsy == {"0", "''", "null", "undefined", "false", NaN}

\* Boolean(v), the default predicate.
Boolean(v) == v \notin Falsy

\* 'happy', the iterable of the tests.
Happy == <<"h", "a", "p", "p", "y">>

\* predicate(v); predicate = None stands for the default.
Predicate(p, v) == IF p = None THEN Boolean(v) ELSE p[1][v]

Not_Same(b) == b

\* !b
Not(b) == ~b

\* The predicate the filter generator works with: the given one for filter,
\* (v) => !predicate(v) for filterFalse.
Keeps(name, p, v) ==
  IF name = "filter" THEN Predicate(p, v) ELSE Not(Predicate(p, v))

RECURSIVE FilterScan(_, _, _, _)
\* The loop of filter from the item after the first `taken`, up to its next
\* yield or the end of the iterable.
FilterScan(name, src, p, taken) ==
  IF taken >= Len(src)
    THEN [found |-> FALSE, taken |-> taken, val |-> Undefined]
    ELSE IF Keeps(name, p, src[taken + 1])
           THEN [found |-> TRUE, taken |-> taken + 1, val |-> src[taken + 1]]
           ELSE FilterScan(name, src, p, taken + 1)

\* One next() of generator `name` in position g: its position afterwards.
FilterPull(name, g) ==
  LET s == FilterScan(name, flt.src, flt.predicate, g.taken) IN
    IF Closed(g.pc)
      THEN [g EXCEPT !.res = "end"]
    ELSE IF s.found
      THEN [pc |-> "yielded", res |-> "value", taken |-> s.taken,
            out |-> Append(g.out, s.val),
            outPos |-> Append(g.outPos, s.taken)]
      ELSE [g EXCEPT !.pc = "done", !.res = "end", !.taken = s.taken]

\* filter(src, predicate) is called.
FilterCall ==
  /\ flt.pc # "idle"
  /\ flt.gen.filter.pc = "uncalled"
  /\ flt' = [flt EXCEPT !.gen.filter.pc = "start"]
  /\ UNCHANGED <<gbVars, combVars, moreVars, mp, cmp>>

\* filterFalse(src, predicate) is called.
FilterFalseCall ==
  /\ flt.pc # "idle"
  /\ flt.gen.filterFalse.pc = "uncalled"
  /\ flt' = [flt EXCEPT !.gen.filterFalse.pc = "start"]
  /\ UNCHANGED <<gbVars, combVars, moreVars, mp, cmp>>

\* next() on the generator filter returned.
FilterNext ==
  /\ flt.pc # "idle"
  /\ flt.gen.filter.pc # "uncalled"
  /\ flt' = [flt EXCEPT !.gen.filter = FilterPull("filter", @)]
  /\ UNCHANGED <<gbVars, combVars, moreVars, mp, cmp>>

\* next() on the generator filterFalse returned: it delegates to the filter
\* generator it made with the negated predicate.
FilterFalseNext ==
  /\ flt.pc # "idle"
  /\ flt.gen.filterFalse.pc # "uncalled"
  /\ flt' = [flt EXCEPT !.gen.filterFalse = FilterPull("filterFalse", @)]
  /\ UNCHANGED <<gbVars, combVars, moreVars, mp, cmp>>

FilterCalls ==
  [src : BoundedSeq({"0", "1"}, MaxFilterLen),
   predicate : {None} \cup {Some(p) : p \in [{"0", "1"} -> BOOLEAN]}]
  \cup [src : {Happy},
        predicate : {Some([v \in {"h", "a", "p", "y"} |-> b]) :
                       b \in BOOLEAN}]

\* filter and filterFalse are handed the same iterable and predicate.
FilterInit ==
  /\ GroupByIdle /\ CombIdle /\ IslIdle /\ ZipIdle /\ AccIdle /\ RngIdle
  /\ MapIdle /\ CompressIdle
  /\ \E c \in FilterCalls :
       LET g == [pc |-> "uncalled", res |-> "none", taken |-> 0,
                 out |-> <<>>, outPos |-> <<>>]
       IN flt = [pc |-> "called", src |-> c.src, predicate |-> c.predicate,
                 gen |-> [filter |-> g, filterFalse |-> g]]

FilterStep ==
  \/ FilterCall
  \/ FilterFalseCall
  \/ FilterNext
  \/ FilterFalseNext

SpecFilter == FilterInit /\ [][FilterStep]_vars

\* ---------------------------------------------------------------- compress
\* A finite iterable, as a source of zip.
Finite(xs) == [inf |-> FALSE, elems |-> xs]

\* The arguments of the tests and of the documented example.
ABCDE == <<"A", "B", "C", "D", "E">>
FalsySelectors == <<"null", "0", "undefined", "''", "false">>
TruthySelectors == <<"1", "'hat'", "{}", "true", "[]">>
DocData == <<"A", "B", "C", "D", "E", "F">>
DocSelectors == <<"1", "0", "1", "0", "1", "1">>

Selected_ByData(t) == Boolean(t[1])

\* const [d, s] = ...; if (s)
Selected(t) == Boolean(t[2])

RECURSIVE CompressScan(_, _)
\* The loop of compress over zip(data, selectors), from the zip cursors cur
\* up to its next yield or the end of the zip.
CompressScan(srcs, cur) ==
  LET result == Round(srcs, cur)
      next == [i \in 1..Len(result) |-> result[i].cur]
  IN IF SomeDone(result)
       THEN [found |-> FALSE, cur |-> next, val |-> Undefined]
       ELSE IF Selected(ZipTuple(result))
              THEN [found |-> TRUE, cur |-> next,
                    val |-> ZipTuple(result)[1]]
              ELSE CompressScan(srcs, next)

\* compress(data, selectors) is called.
CompressCall ==
  /\ cmp.pc = "uncalled"
  /\ cmp' = [cmp EXCEPT !.pc = "start"]
  /\ UNCHANGED <<gbVars, combVars, moreVars, mp, flt>>

\* next() on the generator compress returned.
CompressNext ==
  /\ cmp.pc \notin {"idle", "uncalled"}
  /\ LET s == CompressScan(cmp.srcs, cmp.cur) IN
       IF Closed(cmp.pc)
         THEN cmp' = [cmp EXCEPT !.res = "end"]
       ELSE IF s.found
         THEN cmp' = [cmp EXCEPT !.pc = "yielded", !.res = "value",
                                 !.cur = s.cur,
                                 !.out = Append(cmp.out, s.val),
                                 !.outPos = Append(cmp.outPos, s.cur[1])]
         ELSE cmp' = [cmp EXCEPT !.pc = "done", !.res = "end",
                                 !.cur = s.cur]
  /\ UNCHANGED <<gbVars, combVars, moreVars, mp, flt>>

CompressCalls ==
  [data : BoundedSeq({"A", "B"}, MaxCompressLen),
   selectors : BoundedSeq({"0", "1"}, MaxCompressLen)]
  \cup [data : {ABCDE}, selectors : {FalsySelectors, TruthySelectors}]
  \cup {[data |-> DocData, selectors |-> DocSelectors]}

CompressInit ==
  /\ GroupByIdle /\ CombIdle /\ IslIdle /\ ZipIdle /\ AccIdle /\ RngIdle
  /\ MapIdle /\ FilterIdle
  /\ \E c \in CompressCalls :
       cmp = [pc |-> "uncalled",
              srcs |-> <<Finite(c.data), Finite(c.selectors)>>,
              cur |-> <<0, 0>>, out |-> <<>>, outPos |-> <<>>,
              res |-> "none"]

CompressStep ==
  \/ CompressCall
  \/ CompressNext

SpecCompress == CompressInit /\ [][CompressStep]_vars

\* ------------------------------------- zip, zipLongest, groupBy and islice
LazyInit ==
  \/ ZipInit
  \/ GroupByInit
  \/ IsliceInit

LazyNext ==
  \/ ZipStep
  \/ GroupByNext
  \/ IsliceStep

SpecLazy == LazyInit /\ [][LazyNext]_vars

\* ------------------------------------------------- groupBy: the claims
\* The keys of the maximal runs of consecutive elements of xs whose keys are
\* strictly equal, in order.
RECURSIVE RunKeys(_)
RunKeys(xs) ==
  IF xs = <<>> THEN <<>>
  ELSE LET rest == RunKeys(Tail(xs)) IN
         IF Len(xs) > 1 /\ StrictEq(keyFunc[xs[1]], keyFunc[xs[2]])
           THEN rest
           ELSE <<keyFunc[xs[1]]>> \o rest

\* The values of the first g sub-sequences, concatenated.
RECURSIVE Flatten(_)
Flatten(g) == IF g = 0 THEN <<>> ELSE Flatten(g - 1) \o groups[g].out

IsPrefix(a, b) == Len(a) <= Len(b) /\ a = SubSeq(b, 1, Len(a))

\* C1: a pull of a sub-sequence whose generation token is no longer the live
\* one ends it, pulls nothing from the shared cursor and leaves the current
\* key and the current value as they were.
C1_StalePullLeavesCursor ==
  [][\A g \in 1..Len(groups) :
       (groups[g].targetId # id /\ InnerNext(g)) =>
         /\ last'.res = "end"
         /\ it' = it
         /\ currKey' = currKey
         /\ currValue' = currValue]_vars

\* C2: once the outer sequence has been pulled for the next pair, every pull
\* of an earlier sub-sequence reports end-of-sequence, however far that
\* sub-sequence had been pulled before.
C2_StalePullYieldsNothing ==
  (last.op = "inner" /\ last.stale) =>
     /\ last.res = "end"
     /\ groups[last.g].pc = "done"

\* A sub-sequence that had yielded a value, and whose run had more values to
\* give, is pulled after the outer sequence moved on.
C2_Witness ==
  /\ last.op = "inner" /\ last.stale /\ last.from = "yielded"
  /\ last.res = "end" /\ last.took = 1
  /\ Len(groups[last.g].out) = 1

\* C3: when every sub-sequence is consumed to its end before the next outer
\* pull, each finished sub-sequence is non-empty and holds values of its
\* pair's key, and at the end the sub-sequences concatenated are the source.
C3_EagerRoundTrip ==
  hist.eager =>
    /\ \A g \in 1..Len(groups) :
         groups[g].pc = "done" =>
           /\ groups[g].out # <<>>
           /\ \A k \in 1..Len(groups[g].out) :
                keyFunc[groups[g].out[k]] = outer.keys[g]
    /\ (outer.pc = "done" /\ groups # <<>>
          /\ groups[Len(groups)].pc = "done") =>
         Flatten(Len(groups)) = source

\* C4: when only the most recently yielded sub-sequence is ever pulled, the
\* keys the outer sequence yields are the keys of the maximal runs of the
\* source, in order, and two adjacent ones differ.
C4_OuterKeysAreRunKeys ==
  hist.latestOnly =>
    /\ IsPrefix(outer.keys, RunKeys(source))
    /\ outer.pc = "done" => outer.keys = RunKeys(source)
    /\ \A k \in 1..(Len(outer.keys) - 1) : outer.keys[k] # outer.keys[k + 1]

\* C5: when the outer sequence is consumed to its end before any
\* sub-sequence is pulled, every sub-sequence stays empty however it is
\* pulled afterwards, and there are as many pairs as the source has runs.
C5_ExhaustedOuterEmptiesGroups ==
  (outer.pc = "done" /\ ~hist.innerBeforeEnd) =>
     /\ \A g \in 1..Len(groups) : groups[g].out = <<>>
     /\ Len(groups) = Len(RunKeys(source))

\* The outer sequence of a source of two runs has ended, and both
\* sub-sequences have been pulled since.
C5_Witness ==
  /\ outer.pc = "done" /\ ~hist.innerBeforeEnd
  /\ Len(groups) = 2
  /\ \A g \in 1..Len(groups) : groups[g].pc = "done"

\* -------------------------------------------- combinations: the claims
\* n choose k, by Pascal's rule.
RECURSIVE Binom(_, _)
Binom(n, k) ==
  IF k < 0 \/ k > n THEN 0
  ELSE IF k = 0 \/ k = n THEN 1
  ELSE Binom(n - 1, k - 1) + Binom(n - 1, k)

\* The positions an index tuple names.
PositionSet(t) == {t[k] : k \in DOMAIN t}

\* The rr-tuples over [0, n) that are strictly increasing / non-decreasing.
IncreasingTuples(n, rr) ==
  {t \in [1..rr -> 0..(n - 1)] : \A k \in 1..(rr - 1) : t[k] < t[k + 1]}
NonDecreasingTuples(n, rr) ==
  {t \in [1..rr -> 0..(n - 1)] : \A k \in 1..(rr - 1) : t[k] <= t[k + 1]}

\* a comes strictly before b in lexicographic order (equal lengths).
LexLess(a, b) ==
  \E k \in 1..Len(a) : a[k] < b[k] /\ \A j \in 1..(k - 1) : a[j] = b[j]

\* The same order on tuples of characters, by character code.
Codes(t) == [k \in 1..Len(t) |-> CharCode(t[k])]
IsSorted(xs) ==
  \A k \in 1..(Len(xs) - 1) : CharCode(xs[k]) <= CharCode(xs[k + 1])
IsStrictlySorted(xs) ==
  \A k \in 1..(Len(xs) - 1) : CharCode(xs[k]) < CharCode(xs[k + 1])
OutputSorted ==
  \A k \in 1..(Len(emitted) - 1) :
    \/ emitted[k] = emitted[k + 1]
    \/ LexLess(Codes(emitted[k]), Codes(emitted[k + 1]))

Distinct(seq) == \A a, b \in 1..Len(seq) : a # b => seq[a] # seq[b]

\* C6: combinations yields C(n, r) tuples of length r, one for every
\* r-element set of positions and none twice, when 0 <= r <= n, and nothing
\* when r > n.
C6_CombinationsCount ==
  fn = "combinations" =>
    LET n == Len(iterable) IN
    /\ \A k \in 1..Len(picked) :
         /\ Len(emitted[k]) = r
         /\ Cardinality(PositionSet(picked[k])) = r
         /\ PositionSet(picked[k]) \subseteq 0..(n - 1)
    /\ Cardinality({PositionSet(picked[k]) : k \in 1..Len(picked)})
         = Len(picked)
    /\ pc = "done" =>
         IF r <= n
           THEN /\ Len(emitted) = Binom(n, r)
                /\ {PositionSet(picked[k]) : k \in 1..Len(picked)}
                     = {S \in SUBSET (0..(n - 1)) : Cardinality(S) = r}
           ELSE emitted = <<>>

\* combinations([1,2,3,4,5], 3) has ended after its ten tuples.
C6_Witness ==
  /\ fn = "combinations" /\ pc = "done"
  /\ iterable = <<"1", "2", "3", "4", "5">> /\ r = 3
  /\ Len(emitted) = 10

\* Each index tuple combinations yields is the immediate lexicographic
\* successor of the one before among the strictly increasing r-tuples over
\* [0, n); the first is (0..r-1), the last (n-r..n-1); [1,2,3,4,5] with
\* r = 3 gives (1,2,3) first and (3,4,5) last.
CombinationsIndexOrder ==
  LET n == Len(iterable) IN
  /\ \A k \in 1..Len(picked) : picked[k] \in IncreasingTuples(n, r)
  /\ picked # <<>> => picked[1] = [k \in 1..r |-> k - 1]
  /\ \A k \in 1..(Len(picked) - 1) :
       /\ LexLess(picked[k], picked[k + 1])
       /\ ~\E t \in IncreasingTuples(n, r) :
             LexLess(picked[k], t) /\ LexLess(t, picked[k + 1])
  /\ (pc = "done" /\ r <= n) =>
       picked[Len(picked)] = [k \in 1..r |-> n - r + k - 1]
  /\ (pc = "done" /\ iterable = <<"1", "2", "3", "4", "5">> /\ r = 3) =>
       /\ emitted[1] = <<"1", "2", "3">>
       /\ emitted[Len(emitted)] = <<"3", "4", "5">>

C8_ReplacementCount ==
  (fn = "combinationsWithReplacement" /\ pc = "done") =>
    LET n == Len(iterable) IN
    IF n > 0
      THEN /\ Len(emitted) = Binom(n + r - 1, r)
           /\ Distinct(picked)
           /\ {picked[k] : k \in 1..Len(picked)} = NonDecreasingTuples(n, r)
           /\ \A k \in 1..Len(emitted) : Len(emitted[k]) = r
      ELSE IF r = 0 THEN emitted = <<<<>>>> ELSE emitted = <<>>

\* combinationsWithReplacement("ABCD", 2) has ended after its ten tuples.
C8_Witness ==
  /\ fn = "combinationsWithReplacement" /\ pc = "done"
  /\ iterable = <<"A", "B", "C", "D">> /\ r = 2
  /\ Len(emitted) = 10

\* combinationsWithReplacement yields non-decreasing index tuples in
\* strictly ascending lexicographic order, from (0,...,0) to
\* (n-1,...,n-1); "ABCD" with r = 2 gives AA AB AC AD BB BC BD CC CD DD.
ReplacementIndexOrder ==
  LET n == Len(iterable) IN
  /\ \A k \in 1..Len(picked) : picked[k] \in NonDecreasingTuples(n, r)
  /\ picked # <<>> => picked[1] = [k \in 1..r |-> 0]
  /\ \A k \in 1..(Len(picked) - 1) : LexLess(picked[k], picked[k + 1])
  /\ (pc = "done" /\ n > 0) =>
       picked[Len(picked)] = [k \in 1..r |-> n - 1]
  /\ (pc = "done" /\ iterable = <<"A", "B", "C", "D">> /\ r = 2) =>
       emitted = << <<"A", "A">>, <<"A", "B">>, <<"A", "C">>, <<"A", "D">>,
                    <<"B", "B">>, <<"B", "C">>, <<"B", "D">>,
                    <<"C", "C">>, <<"C", "D">>, <<"D", "D">> >>

ReplacementOfABC ==
  /\ fn = "combinationsWithReplacement" /\ pc = "done"
  /\ iterable = <<"A", "B", "C">> /\ r = 2

C28_OuterSequenceEnds ==
  /\ Len(outer.keys) <= it
  /\ Len(outer.keys) <= Len(source)

\* ------------------------------------------------- islice: the claims
\* The resolved selector of the islice call.
IslArgs == IsliceArgs(isl.startOrEnd, isl.endValue, isl.stepValue)

IslValid ==
  /\ isl.pc \notin {"idle", "uncalled"}
  /\ IslArgs.start >= 0 /\ IslArgs.step > 0
  /\ IslArgs.end = None \/ IslArgs.end[1] >= 0

\* The zero-based positions start, start + step, ... that are below end and
\* below the length of the source, in order.
Wanted(src, a) ==
  LET ns == {n \in 0..Len(src) :
               /\ a.start + n * a.step < Len(src)
               /\ a.end = None \/ a.start + n * a.step < a.end[1]}
  IN [n \in 1..Cardinality(ns) |-> a.start + (n - 1) * a.step]

\* C11: for a valid selector islice yields, in order, exactly the source
\* elements at positions start, start + step, ... that are below end and
\* below the source length; it raises nothing, and it ends only when the
\* source is exhausted or the next wanted position is not below end.
\* islice(range(0, 100), 2, 10, 3) yields 2, 5, 8.
C11_IsliceSelects ==
  IslValid =>
    LET w == Wanted(isl.src, IslArgs)
        next == IslArgs.start + Len(isl.outPos) * IslArgs.step
    IN /\ isl.pc # "thrown"
       /\ IsPrefix(isl.outPos, w)
       /\ Len(isl.out) = Len(isl.outPos)
       /\ \A i \in 1..Len(isl.out) : isl.out[i] = isl.src[isl.outPos[i] + 1]
       /\ isl.pc = "done" =>
            /\ isl.outPos = w
            /\ \/ isl.taken = Len(isl.src)
               \/ IslArgs.end # None /\ next >= IslArgs.end[1]
       /\ isl.pc = "done" /\ isl.src = Range100 => isl.out = <<2, 5, 8>>

C11_Witness ==
  /\ isl.pc = "done" /\ isl.src = Range100
  /\ isl.startOrEnd = 2 /\ isl.endValue = Some(10) /\ isl.stepValue = Some(3)
  /\ isl.out = <<2, 5, 8>>

\* The selector has a negative start, a negative end (or k) or a
\* non-positive step.
IslInvalid ==
  /\ isl.pc # "idle"
  /\ \/ IslArgs.start < 0
     \/ IslArgs.end # None /\ IslArgs.end[1] < 0
     \/ IslArgs.step <= 0

\* C12: a call of islice with start < 0, end < 0 or step <= 0 raises the
\* invalid-argument error itself: it never returns a sequence whose first
\* pull is still to come.
C12_ErrorAtCall == IslInvalid => isl.pc # "start"

\* C13: with a negative start, a negative end (or k) or a non-positive step,
\* no element of the source is pulled and no value is yielded, before the
\* error surfaces and after it: the source cursor stays where it was, and
\* the first pull is the one that raises.
C13_NothingBeforeError ==
  IslInvalid =>
    /\ isl.taken = 0 /\ isl.out = <<>>
    /\ isl.pc \in {"uncalled", "start", "thrown"}
    /\ isl.res \in {"none", "error", "end"}
    /\ isl.pc = "thrown" <=> isl.res # "none"

C13_Witness ==
  /\ IslInvalid /\ isl.pc = "thrown" /\ isl.res = "error"
  /\ isl.stepValue = Some(0) /\ isl.startOrEnd = 0 /\ Len(isl.src) > 0

\* C26: islice never pulls the source past the last position it yields
\* because of the end bound: once the next wanted position is not below end
\* the terminating pull takes no further source element, so the number of
\* elements pulled is at most the last yielded position + 1 when the source
\* is long enough, and zero when start >= end (islice(source, 0) included).
C26_NoPullPastEnd ==
  /\ [](IslValid /\ IslArgs.end # None =>
          LET wanted == IslArgs.start + Len(isl.outPos) * IslArgs.step
              lastPos == IF isl.outPos = <<>> THEN -1
                      ELSE isl.outPos[Len(isl.outPos)]
          IN /\ IslArgs.start >= IslArgs.end[1] => isl.taken = 0
             /\ Len(isl.src) >= IslArgs.end[1] => isl.taken <= lastPos + 1
             /\ isl.taken <= IslArgs.end[1])
  /\ [][IslValid /\ IslArgs.end # None /\ IsliceNext
        /\ IslArgs.start + Len(isl.outPos) * IslArgs.step >= IslArgs.end[1]
        => isl'.taken = isl.taken /\ isl'.pc = "done"]_vars

C26_Witness ==
  /\ isl.pc = "done" /\ isl.res = "end" /\ isl.src = Range100
  /\ isl.outPos = <<2, 5, 8>> /\ isl.taken = 9

\* ------------------------------------------------- zip: the claims
\* The k-th element (from 1) of source s.
ElemAt(s, k) ==
  IF s.inf THEN s.elems[((k - 1) % Len(s.elems)) + 1] ELSE s.elems[k]

FiniteLengths(srcs) ==
  {Len(srcs[i].elems) : i \in {j \in 1..Len(srcs) : ~srcs[j].inf}}

Least(S) == CHOOSE x \in S : \A y \in S : x <= y

Greatest(S) == CHOOSE x \in S : \A y \in S : x >= y

\* C14: zip over N >= 1 sources, at least one of them finite, yields exactly
\* m tuples, m the least source length; the k-th tuple holds the k-th
\* element of each source in argument order, so N real values.
C14_ZipShortest ==
  /\ zp.pc # "idle" /\ zp.fn = "zip"
  /\ Len(zp.srcs) >= 1 /\ FiniteLengths(zp.srcs) # {}
  =>
    LET m == Least(FiniteLengths(zp.srcs)) IN
      /\ Len(zp.out) <= m
      /\ zp.pc = "done" \/ zp.res = "end" => Len(zp.out) = m
      /\ \A k \in 1..Len(zp.out) :
           /\ Len(zp.out[k]) = Len(zp.srcs)
           /\ \A i \in 1..Len(zp.srcs) :
                /\ zp.out[k][i] = ElemAt(zp.srcs[i], k)
                /\ zp.out[k][i] # Undefined

C14_Witness ==
  /\ zp.pc = "done" /\ zp.fn = "zip" /\ Len(zp.srcs) = 2
  /\ zp.srcs[1].inf /\ ~zp.srcs[2].inf /\ Len(zp.srcs[2].elems) = 2
  /\ Len(zp.out) = 2

\* C15: zipLongest over N >= 1 finite sources yields exactly M tuples, M the
\* greatest source length, and ends on the first round in which every source
\* is at its end; slot i of the k-th tuple holds the k-th element of source
\* i if it has one and undefined otherwise.
C15_ZipLongest ==
  /\ zp.pc # "idle" /\ zp.fn = "zipLongest"
  /\ Len(zp.srcs) >= 1 /\ \A i \in 1..Len(zp.srcs) : ~zp.srcs[i].inf
  =>
    LET M == Greatest(FiniteLengths(zp.srcs)) IN
      /\ Len(zp.out) <= M
      /\ zp.pc = "done" \/ zp.res = "end" =>
           /\ Len(zp.out) = M
           /\ \A i \in 1..Len(zp.srcs) : zp.cur[i] = Len(zp.srcs[i].elems)
      /\ zp.pc = "yielded" =>
           \E i \in 1..Len(zp.srcs) : Len(zp.srcs[i].elems) >= Len(zp.out)
      /\ \A k \in 1..Len(zp.out) :
           /\ Len(zp.out[k]) = Len(zp.srcs)
           /\ \A i \in 1..Len(zp.srcs) :
                zp.out[k][i] = IF Len(zp.srcs[i].elems) >= k
                                 THEN zp.srcs[i].elems[k]
                                 ELSE Undefined

C15_Witness ==
  /\ zp.pc = "done" /\ zp.fn = "zipLongest" /\ Len(zp.srcs) = 2
  /\ Len(zp.srcs[1].elems) = 2 /\ Len(zp.srcs[2].elems) = 1
  /\ zp.out[2][2] = Undefined

\* C16: zip over zero sources never ends: no pull of its output reports
\* end-of-sequence, every pull yields an empty tuple.
C16_ZipOfNothing ==
  zp.pc # "idle" /\ zp.fn = "zip" /\ zp.srcs = <<>> =>
    /\ zp.pc # "done" /\ zp.res # "end"
    /\ zp.res = "value" <=> zp.pc = "yielded"
    /\ zp.pc = "yielded" <=> Len(zp.out) > 0
    /\ \A k \in 1..Len(zp.out) : zp.out[k] = <<>>

C16_Witness ==
  /\ zp.fn = "zip" /\ zp.srcs = <<>> /\ zp.pc = "yielded"
  /\ zp.out = <<<<>>, <<>>, <<>>>>

\* C25: every pull of a live zip output, the terminating one included, asks
\* every source once, in argument order; so once zip has ended on a source
\* exhausted at position m, every source with more than m elements has had
\* exactly m + 1 elements pulled, whether it comes before or after the
\* exhausted one.
C25_ZipPullsEverySource ==
  /\ [](zp.pc # "idle" /\ zp.fn = "zip" /\ FiniteLengths(zp.srcs) # {} =>
          LET m == Least(FiniteLengths(zp.srcs)) IN
            \A i \in 1..Len(zp.srcs) :
              /\ zp.pc = "yielded" => zp.cur[i] = Len(zp.out)
              /\ zp.pc = "done" =>
                   zp.cur[i] = IF zp.srcs[i].inf \/ Len(zp.srcs[i].elems) > m
                                 THEN m + 1 ELSE m)
  /\ [][zp.pc \in {"start", "yielded"} /\ zp.fn = "zip" /\ ZipNext =>
          /\ zp'.asked = [i \in 1..Len(zp.srcs) |-> i]
          /\ \A i \in 1..Len(zp.srcs) :
               zp'.cur[i] = IF zp.srcs[i].inf
                               \/ zp.cur[i] < Len(zp.srcs[i].elems)
                              THEN zp.cur[i] + 1 ELSE zp.cur[i]]_vars

C25_Witness ==
  /\ zp.pc = "done" /\ zp.fn = "zip" /\ Len(zp.srcs) = 2
  /\ ~zp.srcs[1].inf /\ Len(zp.srcs[1].elems) = 1
  /\ ~zp.srcs[2].inf /\ Len(zp.srcs[2].elems) = 2
  /\ zp.cur = <<1, 2>> /\ zp.asked = <<1, 2>>

\* ------------------------------------------------- accumulate: the claims
RECURSIVE PrefixSum(_, _)
\* The sum of the first i elements of a sequence of numbers.
PrefixSum(xs, i) == IF i = 0 THEN 0 ELSE PrefixSum(xs, i - 1) + xs[i].n

\* The position (from 1) of the first non-numeric element of xs, or one past
\* its end when every element is a number.
FirstNonNumber(xs) ==
  LET bad == {i \in 1..Len(xs) : TypeOf(xs[i]) # "number"} IN
    IF bad = {} THEN Len(xs) + 1 ELSE Least(bad)

\* C17: accumulate without reducer and without initial value raises the type
\* error on exactly the pull that reaches the first non-numeric element,
\* whatever its position (position 0 included), and never yields a value
\* derived from a non-numeric element; the pulls before it yield the prefix
\* sums of the numeric elements before it.
C17_DefaultReducerTypeError ==
  acc.pc # "idle" /\ acc.reducer = None /\ acc.initial = None =>
    LET p == FirstNonNumber(acc.src) IN
      /\ Len(acc.out) < p
      /\ \A i \in 1..Len(acc.out) : acc.out[i] = Num(PrefixSum(acc.src, i))
      /\ acc.taken >= p => acc.pc = "thrown" /\ acc.taken = p
      /\ acc.pc = "thrown" => acc.taken = p

\* The index tuple ind is one combinations may yield from n elements:
\* length r, entries in [0, n), strictly increasing, entry i at most
\* i + n - r.
ValidIndices(ind, n) ==
  /\ Len(ind) = r
  /\ \A k \in 1..Len(ind) : ind[k] >= 0 /\ ind[k] < n
  /\ \A k \in 1..Len(ind) : ind[k] <= (k - 1) + n - r
  /\ \A k \in 1..(Len(ind) - 1) : ind[k] < ind[k + 1]

\* The index tuple ind is one combinationsWithReplacement may yield: length
\* r, entries in [0, n), non-decreasing.
ValidIndicesRepl(ind, n) ==
  /\ Len(ind) = r
  /\ \A k \in 1..Len(ind) : ind[k] >= 0 /\ ind[k] < n
  /\ \A k \in 1..(Len(ind) - 1) : ind[k] <= ind[k + 1]

\* C27: at every yield the index tuple has length r and entries in [0, n);
\* for combinations it is strictly increasing with entry i at most
\* i + n - r, for combinationsWithReplacement non-decreasing; the advance
\* step re-establishes this before the next yield.
C27_IndexTupleInvariant ==
  /\ [](pc = "yielded" =>
          /\ picked[Len(picked)] = indicies
          /\ fn = "combinations" =>
               \A t \in 1..Len(picked) : ValidIndices(picked[t], Len(saved))
          /\ fn = "combinationsWithReplacement" =>
               \A t \in 1..Len(picked) :
                 ValidIndicesRepl(picked[t], Len(saved)))
  /\ [][pc = "yielded" /\ pc' = "yielded" =>
          IF fn = "combinations"
            THEN ValidIndices(indicies', Len(saved))
            ELSE ValidIndicesRepl(indicies', Len(saved))]_vars

C27_Witness ==
  /\ fn = "combinations" /\ pc = "yielded" /\ Len(saved) = 4 /\ r = 2
  /\ Len(picked) = 4 /\ indicies = <<1, 2>>

\* ------------------------------------------- combinations: the snapshot
\* C18: combinations and combinationsWithReplacement take their snapshot at
\* invocation: once the call has returned, and so before the first pull of
\* the output, the whole source has been pulled, and it is never pulled
\* again.
C18_SnapshotAtCall ==
  fn # "none" => drawn = Len(iterable) /\ saved = iterable

\* ------------------------------------------------- errors: the claims
\* C19: after a pull of an islice, range or accumulate output has raised an
\* error, the sequence is aborted for good: every later pull yields no value
\* (it reports the end) and pulls nothing more from the source.
C19_AbortedForGood ==
  [][/\ isl.pc = "thrown" =>
          /\ isl'.pc = "thrown" /\ isl'.res = "end"
          /\ isl'.out = isl.out /\ isl'.taken = isl.taken
     /\ rng.pc = "thrown" =>
          /\ rng'.pc = "thrown" /\ rng'.res = "end"
          /\ rng'.out = rng.out
     /\ acc.pc = "thrown" =>
          /\ acc'.pc = "thrown" /\ acc'.res = "end"
          /\ acc'.out = acc.out /\ acc'.taken = acc.taken]_vars

C19_Witness ==
  /\ acc.pc = "thrown" /\ acc.res = "end"
  /\ Len(acc.out) > 0 /\ acc.taken < Len(acc.src)

\* ------------------------------------------------- laziness: the claims
\* C20: zip, zipLongest, groupBy and islice are pull-driven: creating the
\* output sequence pulls no element from any source, and afterwards a source
\* element is pulled only in a pull of the output sequence or, for groupBy,
\* of one of its sub-sequences.
C20_PullDriven ==
  /\ [](/\ zp.pc \in {"uncalled", "start"} =>
             \A i \in 1..Len(zp.srcs) : zp.cur[i] = 0
        /\ isl.pc \in {"uncalled", "start"} => isl.taken = 0
        /\ outer.pc = "start" /\ groups = <<>> => it = 0)
  /\ [][/\ zp.pc # "idle" /\ zp'.cur # zp.cur => ZipNext \/ ZipLongestNext
        /\ isl.pc # "idle" /\ isl'.taken # isl.taken => IsliceNext
        /\ it' # it => OuterNext \/ \E g \in 1..Len(groups) : InnerNext(g)
       ]_vars

C20_Witness ==
  /\ zp.pc = "start" /\ Len(zp.srcs) = 2
  /\ zp.srcs[1].elems # <<>> /\ zp.srcs[2].elems # <<>>
  /\ zp.cur = <<0, 0>> /\ zp.out = <<>>

\* ------------------------------------------------- map: the claims
\* C21: map calls the mapper exactly once for every source element, in
\* source order and only when the corresponding output is pulled, and yields
\* its results in that order; the finished output has exactly as many values
\* as the source.
C21_MapOncePerElement ==
  mp.pc # "idle" =>
    /\ mp.calls = SubSeq(mp.src, 1, Len(mp.out))
    /\ mp.taken = Len(mp.out)
    /\ \A i \in 1..Len(mp.out) : mp.out[i] = mp.f[mp.src[i]]
    /\ mp.pc \in {"uncalled", "start"} => mp.calls = <<>>
    /\ mp.pc = "done" \/ mp.res = "end" => Len(mp.out) = Len(mp.src)

C21_Witness ==
  /\ mp.pc = "done" /\ mp.src = TestValues /\ mp.f = Mapper
  /\ mp.calls = TestValues /\ mp.out = <<2, 4, 6, 8, 10>>

\* ------------------------------------------------- filter: the claims
\* The positions (from 1) of the elements of the source for which the
\* predicate is b.
PositionsWhere(b) ==
  {i \in 1..Len(flt.src) : Predicate(flt.predicate, flt.src[i]) = b}

\* Generator g has yielded, in source order, exactly the elements at the
\* positions of S it has come past, and all of S once it has ended.
YieldsExactly(g, S) ==
  /\ Len(g.out) = Len(g.outPos)
  /\ \A i \in 1..Len(g.out) : g.out[i] = flt.src[g.outPos[i]]
  /\ \A i, j \in 1..Len(g.outPos) : i < j => g.outPos[i] < g.outPos[j]
  /\ {g.outPos[i] : i \in 1..Len(g.outPos)} = {i \in S : i <= g.taken}
  /\ g.pc = "done" \/ g.res = "end" => g.taken = Len(flt.src)

ConstantPredicate(b) ==
  /\ flt.predicate # None
  /\ \A v \in DOMAIN flt.predicate[1] : flt.predicate[1][v] = b

\* C22: filter yields exactly the elements for which the predicate is true,
\* filterFalse exactly those for which it is false, each in source order, so
\* the two finished outputs partition the source; with a constant-true
\* predicate filter is the identity and filterFalse is empty, and conversely
\* with a constant-false one.
C22_FilterPartition ==
  flt.pc # "idle" =>
    LET f == flt.gen.filter
        ff == flt.gen.filterFalse
        set(g) == {g.outPos[i] : i \in 1..Len(g.outPos)}
    IN /\ YieldsExactly(f, PositionsWhere(TRUE))
       /\ YieldsExactly(ff, PositionsWhere(FALSE))
       /\ f.pc = "done" /\ ff.pc = "done" =>
            /\ set(f) \cap set(ff) = {}
            /\ set(f) \cup set(ff) = 1..Len(flt.src)
            /\ Len(f.out) + Len(ff.out) = Len(flt.src)
            /\ ConstantPredicate(TRUE) => f.out = flt.src /\ ff.out = <<>>
            /\ ConstantPredicate(FALSE) => f.out = <<>> /\ ff.out = flt.src

C22_Witness ==
  /\ flt.pc # "idle" /\ flt.src = Happy /\ ConstantPredicate(FALSE)
  /\ flt.gen.filter.pc = "done" /\ flt.gen.filterFalse.pc = "done"
  /\ flt.gen.filter.out = <<>> /\ flt.gen.filterFalse.out = Happy

\* ------------------------------------------------- compress: the claims
Min(a, b) == IF a <= b THEN a ELSE b

\* C23: compress yields, in order, exactly the data elements at the positions
\* below min(len(data), len(selectors)) whose selector is truthy, and ends as
\* soon as data or selectors is exhausted: no round of the zip follows the
\* one that finds an end.  compress('ABCDEF', [1,0,1,0,1,1]) yields A C E F.
C23_CompressSelects ==
  cmp.pc # "idle" =>
    LET data == cmp.srcs[1].elems
        selectors == cmp.srcs[2].elems
        m == Min(Len(data), Len(selectors))
        S == {i \in 1..m : Boolean(selectors[i])}
        ended == cmp.pc = "done" \/ cmp.res = "end"
    IN /\ Len(cmp.out) = Len(cmp.outPos)
       /\ \A i \in 1..Len(cmp.out) : cmp.out[i] = data[cmp.outPos[i]]
       /\ \A i, j \in 1..Len(cmp.outPos) : i < j => cmp.outPos[i] < cmp.outPos[j]
       /\ {cmp.outPos[i] : i \in 1..Len(cmp.outPos)} =
            {i \in S : i <= cmp.cur[1]}
       /\ ~ended => cmp.cur[1] <= m /\ cmp.cur[2] = cmp.cur[1]
       /\ ended => /\ cmp.cur[1] = Min(Len(data), m + 1)
                   /\ cmp.cur[2] = Min(Len(selectors), m + 1)
       /\ ended /\ data = DocData => cmp.out = <<"A", "C", "E", "F">>

C23_Witness ==
  /\ cmp.pc = "done" /\ cmp.srcs[1].elems = DocData
  /\ cmp.srcs[2].elems = DocSelectors /\ cmp.out = <<"A", "C", "E", "F">>

\* ------------------------------------------------- range: the claims
\* C24: for all integers start, end and step # 0, range(start, end, step)
\* terminates and yields exactly start, start + step, start + 2 * step, ...
\* while the value is below end (step > 0) or above end (step < 0), nothing
\* if start fails that test; range(end) is range(0, end, 1); a step of 0
\* raises a TypeError and yields nothing.
C24_RangeYields ==
  /\ rng.pc # "idle"
  /\ IsInteger(rng.startOrEnd)
  /\ rng.maybeEnd # None => IsInteger(rng.maybeEnd[1])
  /\ rng.step # None => IsInteger(rng.step[1])
  =>
    LET start == IF rng.maybeEnd = None THEN Whole(0) ELSE rng.startOrEnd
        end == IF rng.maybeEnd = None THEN rng.startOrEnd ELSE rng.maybeEnd[1]
        step == IF rng.step = None THEN 1 ELSE rng.step[1].int
        Nth(n) == [start EXCEPT !.int = start.int + n * step]
        Test(v) == IF step > 0 THEN Less(v, end) ELSE Less(end, v)
        Distance == IF end.int >= start.int THEN end.int - start.int
                                            ELSE start.int - end.int
    IN IF step = 0
         THEN /\ rng.out = <<>>
              /\ rng.pc \in {"uncalled", "start", "thrown"}
              /\ rng.res # "none" => rng.pc = "thrown"
         ELSE /\ rng.pc # "thrown"
              /\ \A n \in 1..Len(rng.out) :
                   rng.out[n] = Nth(n - 1) /\ Test(rng.out[n])
              /\ rng.pc = "done" => ~Test(Nth(Len(rng.out)))
              /\ start.big = end.big => Len(rng.out) <= Distance

====
